---- MODULE Spec2Model ----
(***************************************************************************)
(* stringpea: confusable distance = Levenshtein distance of the            *)
(* confusable-normalized strings.                                          *)
(*                                                                         *)
(* A JavaScript string is modelled as the sequence of its UTF-16 code      *)
(* units (naturals).  s.length is Len(s), s.charCodeAt(i) is s[i + 1].     *)
(* Iterating a string ([...s], for..of) yields its code points: a high     *)
(* surrogate followed by a low surrogate is one element of two units,      *)
(* every other unit is an element of its own.                              *)
(***************************************************************************)
EXTENDS Integers, Sequences, FiniteSets, TLC

VARIABLES
    frame,             \* the activation of levenshteinDistance being executed
    compact,           \* confusablesData: the compact table the module imports
    normalizationMap,  \* the module-level cache: << >> is null, <<m>> holds map m
    builds,            \* how many times decodeCompact has run
    call,              \* the last public call: its arguments and what it returned
    refresh,           \* the table refresh script: its data and what was decoded from it
    callers            \* callers with a first call outstanding, and what each observed

vars == <<frame, compact, normalizationMap, builds, call, refresh, callers>>

----------------------------------------------------------------------------
(* Bounds *)

\* longest input, in code points, of the enumerated levenshteinDistance inputs
MaxLen == 4

\* longest input, in code points, of the enumerated public calls
MaxStr == 2

\* most (canonical, confusables) pairs in an enumerated compact table
MaxPairs == 2

\* most entries of an enumerated flat table
MaxEntries == 2

\* largest distance argument of an enumerated call of min
MaxDist == 3

\* most lines of an enumerated confusables.txt
MaxLines == 2

\* callers waiting to make their first call
NumCallers == 2

----------------------------------------------------------------------------
(* Strings *)

\* all sequences over S of length 0..n
RECURSIVE SeqsUpTo(_, _)
SeqsUpTo(S, n) ==
    IF n = 0 THEN {<< >>}
    ELSE LET shorter == SeqsUpTo(S, n - 1)
         IN  shorter \cup {Append(s, c) : s \in {t \in shorter : Len(t) = n - 1}, c \in S}

\* String.fromCodePoint: the UTF-16 encoding of one code point
fromCodePoint(cp) ==
    IF cp < 65536 THEN <<cp>>
    ELSE <<55296 + ((cp - 65536) \div 1024), 56320 + ((cp - 65536) % 1024)>>

\* the string whose code points are cps, in order
RECURSIVE fromCodePoints(_)
fromCodePoints(cps) ==
    IF cps = << >> THEN << >>
    ELSE fromCodePoint(Head(cps)) \o fromCodePoints(Tail(cps))

isHighSurrogate(u) == u >= 55296 /\ u <= 56319
isLowSurrogate(u) == u >= 56320 /\ u <= 57343

\* the string iterator ([...str], for (const char of str)): the sequence of
\* the string's code points, each as the string of its one or two units
RECURSIVE stringIterator(_)
stringIterator(s) ==
    IF s = << >> THEN << >>
    ELSE IF Len(s) >= 2 /\ isHighSurrogate(s[1]) /\ isLowSurrogate(s[2])
         THEN <<SubSeq(s, 1, 2)>> \o stringIterator(SubSeq(s, 3, Len(s)))
         ELSE <<SubSeq(s, 1, 1)>> \o stringIterator(Tail(s))

\* number of code points (comparison units of the specification) of a string
codePointLength(s) == Len(stringIterator(s))

\* String.prototype.charCodeAt for an index inside the string (0-based)
charCodeAt(s, i) == s[i + 1]

----------------------------------------------------------------------------
(* levenshtein-distance.ts *)

\* the drifted helper: the character test is lost, a match costs an edit
minNoMatch(d0, d1, d2, bx, ay) ==
    IF d0 < d1 \/ d2 < d1 THEN (IF d0 > d2 THEN d2 + 1 ELSE d0 + 1) ELSE d1 + 1

\* the test d2 < d1 lost: the third distance is never looked at
minWithoutD2(d0, d1, d2, bx, ay) ==
    IF d0 < d1 THEN d0 + 1 ELSE (IF bx = ay THEN d1 ELSE d1 + 1)

\* the character test made first: a match returns d1 whatever d0 and d2 are
minMatchFirst(d0, d1, d2, bx, ay) ==
    IF bx = ay THEN d1
    ELSE IF d0 < d1 \/ d2 < d1 THEN (IF d0 > d2 THEN d2 + 1 ELSE d0 + 1)
    ELSE d1 + 1

min(d0, d1, d2, bx, ay) ==
    IF d0 < d1 \/ d2 < d1
    THEN (IF d0 > d2 THEN d2 + 1 ELSE d0 + 1)
    ELSE (IF bx = ay THEN d1 ELSE d1 + 1)

\* the swap written without its temporary: a = b; b = a
orientNoTmp(a, b) == IF Len(a) > Len(b) THEN <<b, b>> ELSE <<a, b>>

\* one call of min as the loops make it: the arguments and the value returned
minCall(d0, d1, d2, bx, ay) ==
    [d0 |-> d0, d1 |-> d1, d2 |-> d2, bx |-> bx, ay |-> ay,
     ret |-> min(d0, d1, d2, bx, ay)]

\* Optimization 2: a is the shorter string
orient(a, b) == IF Len(a) > Len(b) THEN <<b, a>> ELSE <<a, b>>

\* the suffix loop run as an if: at most one common trailing character goes
stripSuffixAtMostOne(a, b, la, lb) ==
    IF la > 0 /\ charCodeAt(a, la - 1) = charCodeAt(b, lb - 1) THEN la - 1 ELSE la

\* Optimization 3a: la after the common suffix is stripped (lb drops by as much)
RECURSIVE stripSuffix(_, _, _, _)
stripSuffix(a, b, la, lb) ==
    IF la > 0 /\ charCodeAt(a, la - 1) = charCodeAt(b, lb - 1)
    THEN stripSuffix(a, b, la - 1, lb - 1)
    ELSE la

\* Optimization 3b: offset after the common prefix is stripped
RECURSIVE stripPrefix(_, _, _, _)
stripPrefix(a, b, offset, la) ==
    IF offset < la /\ charCodeAt(a, offset) = charCodeAt(b, offset)
    THEN stripPrefix(a, b, offset + 1, la)
    ELSE offset

\* the vector after the initialisation loop: [distance, charCode, ...], 0-based
vectorInit(a, offset, la) ==
    [i \in 0 .. (2 * la - 1) |->
        IF i % 2 = 0 THEN (i \div 2) + 1 ELSE charCodeAt(a, offset + (i \div 2))]

\* inner loop of the main loop, from index y on
RECURSIVE mainInner(_, _, _, _, _, _, _, _, _, _, _, _)
mainInner(vector, y, len, d0, d1, d2, d3, dd, bx0, bx1, bx2, bx3) ==
    IF ~(y < len) THEN [vector |-> vector, dd |-> dd, calls |-> << >>]
    ELSE IF y \notin DOMAIN vector \/ (y + 1) \notin DOMAIN vector
    THEN mainInner(vector, y + 2, len, d0, d1, d2, d3, dd, bx0, bx1, bx2, bx3)
    ELSE LET dy == vector[y]
             ay == vector[y + 1]
             n0 == min(dy, d0, d1, bx0, ay)
             n1 == min(n0, d1, d2, bx1, ay)
             n2 == min(n1, d2, d3, bx2, ay)
             nd == min(n2, d3, dd, bx3, ay)
             made == <<minCall(dy, d0, d1, bx0, ay), minCall(n0, d1, d2, bx1, ay),
                       minCall(n1, d2, d3, bx2, ay), minCall(n2, d3, dd, bx3, ay)>>
         IN  \* s and r range over one value each: the values of this pass
             \* and of the rest of the loop, each computed once
             CHOOSE out \in
                 {[r EXCEPT !.calls = made \o r.calls] :
                      r \in {mainInner(s[1], y + 2, len, s[2], s[3], s[4], s[5], s[6],
                                       s[7], s[8], s[9], s[10]) :
                                 s \in {<<[vector EXCEPT ![y] = nd], dy, n0, n1, n2, nd,
                                          bx0, bx1, bx2, bx3>>}}} : TRUE

\* the shift d0 = dy lost: the diagonal stays the column's top value
RECURSIVE cleanupInnerNoShift(_, _, _, _, _, _)
cleanupInnerNoShift(vector, y, len, d0, dd, bx0) ==
    IF ~(y < len) THEN [vector |-> vector, dd |-> dd, calls |-> << >>]
    ELSE LET dy == vector[y]
             nd == min(dy, d0, dd, bx0, vector[y + 1])
         IN  cleanupInnerNoShift([vector EXCEPT ![y] = nd], y + 2, len, d0, nd, bx0)

\* inner loop of the cleanup loop, from index y on
RECURSIVE cleanupInner(_, _, _, _, _, _)
cleanupInner(vector, y, len, d0, dd, bx0) ==
    IF ~(y < len) THEN [vector |-> vector, dd |-> dd, calls |-> << >>]
    ELSE IF y \notin DOMAIN vector \/ (y + 1) \notin DOMAIN vector
    THEN cleanupInner(vector, y + 2, len, d0, dd, bx0)
    ELSE LET dy == vector[y]
             nd == min(dy, d0, dd, bx0, vector[y + 1])
             made == <<minCall(dy, d0, dd, bx0, vector[y + 1])>>
         IN  \* s and r range over one value each, as in the main loop
             CHOOSE out \in
                 {[r EXCEPT !.calls = made \o r.calls] :
                      r \in {cleanupInner(s[1], y + 2, len, s[2], s[3], s[4]) :
                                 s \in {<<[vector EXCEPT ![y] = nd], dy, nd, bx0>>}}} : TRUE

\* vector.length
vectorLength(vector) == Cardinality(DOMAIN vector)

\* the activation on entry: the arguments, no local assigned yet
newFrame(a, b) ==
    [pc |-> "call", argA |-> a, argB |-> b, a |-> a, b |-> b,
     la |-> 0, lb |-> 0, offset |-> 0, x |-> 0, dd |-> 0,
     vector |-> << >>, ret |-> 0, path |-> "none", calls |-> << >>]

\* no call of levenshteinDistance in progress
noFrame == [newFrame(<< >>, << >>) EXCEPT !.pc = "idle"]

\* the identity short-circuit left out: every call goes on to the stripping
enterNoShortCircuit(f) ==
    LET ab == orient(f.a, f.b)
        a == ab[1]
        b == ab[2]
        la1 == stripSuffix(a, b, Len(a), Len(b))
        lb1 == Len(b) - (Len(a) - la1)
        offset == stripPrefix(a, b, 0, la1)
        la == la1 - offset
        lb == lb1 - offset
        g == [f EXCEPT !.a = a, !.b = b, !.la = la, !.lb = lb, !.offset = offset]
    IN  IF la = 0 \/ lb < 3
        THEN [g EXCEPT !.pc = "done", !.ret = lb, !.path = "degenerate"]
        ELSE [g EXCEPT !.pc = "main", !.vector = vectorInit(a, offset, la)]

\* the degenerate case returning the shorter residual length
enterReturnLa(f) ==
    IF f.a = f.b THEN [f EXCEPT !.pc = "done", !.ret = 0, !.path = "identity"]
    ELSE LET g == enterNoShortCircuit(f)
         IN  IF g.path = "degenerate" THEN [g EXCEPT !.ret = g.la] ELSE g

\* the degenerate case counting both residuals: la + lb returned
enterReturnSum(f) ==
    IF f.a = f.b THEN [f EXCEPT !.pc = "done", !.ret = 0, !.path = "identity"]
    ELSE LET g == enterNoShortCircuit(f)
         IN  IF g.path = "degenerate" THEN [g EXCEPT !.ret = g.la + g.lb] ELSE g

\* the degenerate case taken for lb < 4 instead of lb < 3
enterThreshold4(f) ==
    IF f.a = f.b THEN [f EXCEPT !.pc = "done", !.ret = 0, !.path = "identity"]
    ELSE LET g == enterNoShortCircuit(f)
         IN  IF g.path = "degenerate" \/ g.lb < 4
             THEN [g EXCEPT !.pc = "done", !.ret = g.lb, !.path = "degenerate"]
             ELSE g

\* lines 46-128: identity test, orientation, elision, degenerate return,
\* vector initialisation
enter(f) ==
    IF f.a = f.b
    THEN [f EXCEPT !.pc = "done", !.ret = 0, !.path = "identity"]
    ELSE LET ab == orient(f.a, f.b)
             a == ab[1]
             b == ab[2]
             la1 == stripSuffix(a, b, Len(a), Len(b))
             lb1 == Len(b) - (Len(a) - la1)
             offset == stripPrefix(a, b, 0, la1)
             la == la1 - offset
             lb == lb1 - offset
             g == [f EXCEPT !.a = a, !.b = b, !.la = la, !.lb = lb,
                            !.offset = offset]
         IN  IF la = 0 \/ lb < 3
             THEN [g EXCEPT !.pc = "done", !.ret = lb, !.path = "degenerate"]
             ELSE [g EXCEPT !.pc = "main", !.vector = vectorInit(a, offset, la)]

\* one outer iteration of the main loop (lines 132-175), taken when x < lb - 3
mainIteration(f) ==
    LET d0 == f.x
        d1 == f.x + 1
        d2 == f.x + 2
        d3 == f.x + 3
        bx0 == charCodeAt(f.b, f.offset + d0)
        bx1 == charCodeAt(f.b, f.offset + d1)
        bx2 == charCodeAt(f.b, f.offset + d2)
        bx3 == charCodeAt(f.b, f.offset + d3)
        x == f.x + 4
        r == mainInner(f.vector, 0, vectorLength(f.vector) - 1,
                       d0, d1, d2, d3, x, bx0, bx1, bx2, bx3)
    IN  [f EXCEPT !.x = x, !.dd = r.dd, !.vector = r.vector, !.calls = r.calls]

\* the loop update x++ lost: the cleanup loop does not advance
cleanupIterationStalled(f) ==
    LET d0 == f.x
        bx0 == charCodeAt(f.b, f.offset + d0)
        r == cleanupInner(f.vector, 0, vectorLength(f.vector) - 1, d0, f.x, bx0)
    IN  [f EXCEPT !.dd = r.dd, !.vector = r.vector, !.calls = r.calls]

\* one outer iteration of the cleanup loop (lines 178-196), taken when x < lb
cleanupIteration(f) ==
    LET d0 == f.x
        bx0 == charCodeAt(f.b, f.offset + d0)
        x == f.x + 1
        r == cleanupInner(f.vector, 0, vectorLength(f.vector) - 1, d0, x, bx0)
    IN  [f EXCEPT !.x = x, !.dd = r.dd, !.vector = r.vector, !.calls = r.calls]

\* one step of the activation, by position
step(f) ==
    CASE f.pc = "call" -> enter(f)
      [] f.pc = "main" ->
            IF f.x < f.lb - 3 THEN mainIteration(f) ELSE [f EXCEPT !.pc = "cleanup"]
      [] f.pc = "cleanup" ->
            IF f.x < f.lb THEN cleanupIteration(f)
            ELSE [f EXCEPT !.pc = "done", !.ret = f.dd, !.path = "dp"]
      [] OTHER -> f

RECURSIVE run(_)
run(f) == IF f.pc = "done" THEN f ELSE run(step(f))

\* the function as a whole: what a call returns
levenshteinDistance(a, b) == run(newFrame(a, b)).ret

----------------------------------------------------------------------------
(* Reference: the Levenshtein distance by the full Wagner-Fischer matrix,   *)
(* row by row, over the elements of two sequences                           *)

Min2(p, q) == IF p < q THEN p ELSE q

\* the row of s-position i from the row prev of position i - 1, built left to right
RECURSIVE refRow(_, _, _, _, _)
refRow(prev, si, t, j, acc) ==
    IF j > Len(t) THEN acc
    ELSE LET sub == prev[j] + (IF si = t[j] THEN 0 ELSE 1)
             del == prev[j + 1] + 1
             ins == acc[j] + 1
         IN  refRow(prev, si, t, j + 1, Append(acc, Min2(sub, Min2(del, ins))))

RECURSIVE refRows(_, _, _, _)
refRows(prev, s, t, i) ==
    IF i > Len(s) THEN prev[Len(t) + 1]
    ELSE \* row ranges over one value: the row of position i, computed once
         CHOOSE d \in {refRows(row, s, t, i + 1) :
                           row \in {refRow(prev, s[i], t, 1, <<i>>)}} : TRUE

\* minimum number of single-element insertions, deletions and substitutions
\* turning s into t
RefDistance(s, t) == refRows([j \in 1 .. (Len(t) + 1) |-> j - 1], s, t, 1)

----------------------------------------------------------------------------
(* confusables.ts *)

\* Map.prototype.set on a map held as a function from key strings to strings
mapSet(map, key, value) ==
    [k \in (DOMAIN map) \cup {key} |-> IF k = key THEN value ELSE map[k]]

\* lines 21-23: every character of the confusables string maps to canonical
RECURSIVE setConfusables(_, _, _)
setConfusables(map, chars, canonical) ==
    IF chars = << >> THEN map
    ELSE setConfusables(mapSet(map, Head(chars), canonical), Tail(chars), canonical)

\* one pass of the outer loop of decodeCompact, for the pair [canonical, confusables]
decodePair(map, pair) ==
    LET canonical == pair[1]
        m == setConfusables(map, stringIterator(pair[2]), canonical)
    IN  IF canonical \in DOMAIN m THEN m ELSE mapSet(m, canonical, canonical)

RECURSIVE decodeFrom(_, _, _)
decodeFrom(map, pairs, i) ==
    IF i > Len(pairs) THEN map
    ELSE decodeFrom(decodePair(map, pairs[i]), pairs, i + 1)

decodeCompact(pairs) == decodeFrom(<< >>, pairs, 1)

\* the module before its first call: nothing cached
freshModule == [normalizationMap |-> << >>, builds |-> 0]

\* the null test lost: every access decodes the table again
getNormalizationMapNoCache(mod, data) ==
    [normalizationMap |-> <<decodeCompact(data)>>, builds |-> mod.builds + 1]

\* the cache dropped after its first use: later accesses get an empty map
getNormalizationMapLostCache(mod, data) ==
    IF Len(mod.normalizationMap) = 0
    THEN [normalizationMap |-> <<decodeCompact(data)>>, builds |-> mod.builds + 1]
    ELSE [mod EXCEPT !.normalizationMap = << << >> >>]

\* getNormalizationMap on the module state (the cache and the build counter):
\* decode on first access, then the cached map
getNormalizationMap(mod, data) ==
    IF Len(mod.normalizationMap) = 0
    THEN [normalizationMap |-> <<decodeCompact(data)>>, builds |-> mod.builds + 1]
    ELSE mod

\* the fallback lost: a character that is no key of the map is dropped
RECURSIVE joinMappedDropUnmapped(_, _)
joinMappedDropUnmapped(map, chars) ==
    IF chars = << >> THEN << >>
    ELSE (IF Head(chars) \in DOMAIN map THEN map[Head(chars)] ELSE << >>)
         \o joinMappedDropUnmapped(map, Tail(chars))

\* the mapped value cut to its first unit, so that one character comes out
\* for each character that goes in
RECURSIVE joinMappedFirstUnit(_, _)
joinMappedFirstUnit(map, chars) ==
    IF chars = << >> THEN << >>
    ELSE (IF Head(chars) \in DOMAIN map
          THEN SubSeq(map[Head(chars)], 1, 1) ELSE Head(chars))
         \o joinMappedFirstUnit(map, Tail(chars))

\* [...str].map((char) => map.get(char) ?? char).join("")
RECURSIVE joinMapped(_, _)
joinMapped(map, chars) ==
    IF chars = << >> THEN << >>
    ELSE (IF Head(chars) \in DOMAIN map THEN map[Head(chars)] ELSE Head(chars))
         \o joinMapped(map, Tail(chars))

\* normalizeConfusables: the module state after the call and the string returned
normalizeConfusables(mod, data, str) ==
    LET m == getNormalizationMap(mod, data)
    IN  [mod |-> m, out |-> joinMapped(m.normalizationMap[1], stringIterator(str))]

----------------------------------------------------------------------------
(* index.ts *)

\* the second argument handed to the distance without being normalized
getConfusableDistanceRawB(mod, data, a, b) ==
    LET na == normalizeConfusables(mod, data, a)
    IN  [mod |-> na.mod, normA |-> na.out, normB |-> b,
         ret |-> levenshteinDistance(na.out, b)]

\* the first argument handed to the distance without being normalized
getConfusableDistanceRawA(mod, data, a, b) ==
    LET nb == normalizeConfusables(mod, data, b)
    IN  [mod |-> nb.mod, normA |-> a, normB |-> nb.out,
         ret |-> levenshteinDistance(a, nb.out)]

getConfusableDistance(mod, data, a, b) ==
    LET na == normalizeConfusables(mod, data, a)
        nb == normalizeConfusables(na.mod, data, b)
    IN  [mod |-> nb.mod, normA |-> na.out, normB |-> nb.out,
         ret |-> levenshteinDistance(na.out, nb.out)]

----------------------------------------------------------------------------
(* confusables.ts, flat encoding: confusablesData is an object whose entries *)
(* [confusable, canonical] are held here in Object.entries order             *)

\* lines 72-74: every confusable maps to its canonical
RECURSIVE flatSetEntries(_, _, _)
flatSetEntries(map, data, i) ==
    IF i > Len(data) THEN map
    ELSE flatSetEntries(mapSet(map, data[i][1], data[i][2]), data, i + 1)

\* lines 76-80: every canonical not yet a key maps to itself
RECURSIVE flatSetCanonicals(_, _, _)
flatSetCanonicals(map, data, i) ==
    IF i > Len(data) THEN map
    ELSE LET canonical == data[i][2]
         IN  flatSetCanonicals(
                 IF canonical \in DOMAIN map THEN map
                 ELSE mapSet(map, canonical, canonical), data, i + 1)

\* getNormalizationMap of the flat encoding
flatGetNormalizationMap(mod, data) ==
    IF Len(mod.normalizationMap) = 0
    THEN [normalizationMap |->
              <<flatSetCanonicals(flatSetEntries(<< >>, data, 1), data, 1)>>,
          builds |-> mod.builds + 1]
    ELSE mod

----------------------------------------------------------------------------
(* scripts/update-confusables.ts *)

\* index of the group of canonical dst in groups, 0 when there is none
groupIndex(groups, dst) ==
    IF \E k \in 1 .. Len(groups) : groups[k][1] = dst
    THEN CHOOSE k \in 1 .. Len(groups) : groups[k][1] = dst
    ELSE 0

\* the group replaced instead of extended: only the last confusable of each
\* canonical survives
RECURSIVE groupEntriesKeepLast(_, _, _)
groupEntriesKeepLast(groups, data, i) ==
    IF i > Len(data) THEN groups
    ELSE LET src == data[i][1]
             dst == data[i][2]
             k == groupIndex(groups, dst)
         IN  groupEntriesKeepLast(
                 IF k = 0 THEN Append(groups, <<dst, <<src>>>>)
                 ELSE [groups EXCEPT ![k] = <<dst, <<src>>>>], data, i + 1)

\* lines 77-82: the groups Map, in insertion order, each canonical with the
\* list of its confusables
RECURSIVE groupEntries(_, _, _)
groupEntries(groups, data, i) ==
    IF i > Len(data) THEN groups
    ELSE LET src == data[i][1]
             dst == data[i][2]
             k == groupIndex(groups, dst)
             g == IF k = 0 THEN Append(groups, <<dst, << >>>>) ELSE groups
             n == IF k = 0 THEN Len(g) ELSE k
         IN  groupEntries([g EXCEPT ![n] = <<dst, Append(g[n][2], src)>>], data, i + 1)

\* Array.prototype.join(""): the strings concatenated
RECURSIVE joinStrings(_)
joinStrings(strs) ==
    IF strs = << >> THEN << >> ELSE Head(strs) \o joinStrings(Tail(strs))

\* encodeCompact: [canonical, confusables.join("")] for each group
encodeCompact(data) ==
    LET groups == groupEntries(<< >>, data, 1)
    IN  [k \in 1 .. Len(groups) |-> <<groups[k][1], joinStrings(groups[k][2])>>]

\* white space as trim() and \s see it in the lines of the source: space, tab
isSpace(c) == c = 32 \/ c = 9

\* String.prototype.split(sep) for a one-character separator: the fields
\* between the separators, at least one
RECURSIVE splitFrom(_, _, _, _)
splitFrom(str, sep, i, field) ==
    IF i > Len(str) THEN <<field>>
    ELSE IF str[i] = sep THEN <<field>> \o splitFrom(str, sep, i + 1, << >>)
    ELSE splitFrom(str, sep, i + 1, Append(field, str[i]))

split(str, sep) == splitFrom(str, sep, 1, << >>)

\* String.prototype.trim
RECURSIVE trimStart(_)
trimStart(str) ==
    IF str # << >> /\ isSpace(Head(str)) THEN trimStart(Tail(str)) ELSE str

RECURSIVE trimEnd(_)
trimEnd(str) ==
    IF str # << >> /\ isSpace(str[Len(str)])
    THEN trimEnd(SubSeq(str, 1, Len(str) - 1))
    ELSE str

trim(str) == trimEnd(trimStart(str))

\* replace(/\s+/g, " "): every run of white space becomes one space
RECURSIVE collapseSpaces(_, _)
collapseSpaces(str, inRun) ==
    IF str = << >> THEN << >>
    ELSE IF isSpace(Head(str))
    THEN (IF inRun THEN << >> ELSE <<32>>) \o collapseSpaces(Tail(str), TRUE)
    ELSE <<Head(str)>> \o collapseSpaces(Tail(str), FALSE)

\* the value of a hexadecimal digit character, -1 for any other character
hexValue(c) ==
    IF c >= 48 /\ c <= 57 THEN c - 48
    ELSE IF c >= 65 /\ c <= 70 THEN c - 55
    ELSE IF c >= 97 /\ c <= 102 THEN c - 87
    ELSE -1

\* NaN, as parseInt returns it
NaN == -1

\* parseInt(str, 16) on a string without sign or 0x prefix: leading white
\* space skipped, then the longest run of hexadecimal digits; NaN when the
\* run is empty
RECURSIVE parseDigits(_, _, _)
parseDigits(str, acc, any) ==
    IF str = << >> \/ hexValue(Head(str)) = -1
    THEN (IF any THEN acc ELSE NaN)
    ELSE parseDigits(Tail(str), 16 * acc + hexValue(Head(str)), TRUE)

parseInt16(str) == parseDigits(trimStart(str), 0, FALSE)

\* String.fromCodePoint throws a RangeError for NaN and for numbers above
\* 0x10FFFF
codePointThrows(n) == n = NaN \/ n > 1114111

\* lines 55-59: the destination codes turned into a string; thrown is set
\* when a String.fromCodePoint call throws
RECURSIVE decodeCodes(_)
decodeCodes(codes) ==
    IF codes = << >> THEN [thrown |-> FALSE, str |-> << >>]
    ELSE LET code == Head(codes)
             rest == decodeCodes(Tail(codes))
         IN  IF code = << >> THEN rest
             ELSE IF codePointThrows(parseInt16(code))
             THEN [thrown |-> TRUE, str |-> << >>]
             ELSE [rest EXCEPT !.str = fromCodePoint(parseInt16(code)) \o rest.str]

\* what parseConfusables does with one line (lines 41-60): the line is
\* filtered out, left without an entry by a return, makes String.fromCodePoint
\* throw, or gives the entry src -> dst
parseLine(line) ==
    LET fields == split(line, 59)
        src == trim(fields[1])
        dst == trim(fields[2])
        out == decodeCodes(split(collapseSpaces(dst, FALSE), 32))
        none == [kind |-> "filtered", src |-> << >>, dst |-> << >>]
    IN  IF line = << >> \/ line[1] = 35 THEN none
        ELSE IF Len(fields) < 2 THEN [none EXCEPT !.kind = "returned"]
        ELSE IF src = << >> \/ dst = << >> THEN [none EXCEPT !.kind = "returned"]
        ELSE IF codePointThrows(parseInt16(src)) \/ out.thrown
        THEN [none EXCEPT !.kind = "thrown"]
        ELSE [kind |-> "entry", src |-> fromCodePoint(parseInt16(src)), dst |-> out.str]

\* a key that Object.entries lists before the insertion-ordered keys, in
\* ascending numeric order: here a one-digit string
isArrayIndex(key) == Len(key) = 1 /\ key[1] >= 48 /\ key[1] <= 57

\* line 60, result[src] = dst, on the object held as its Object.entries list:
\* an existing key keeps its place, a new digit key goes among the digit
\* keys in ascending order, any other new key goes last
objectSet(entries, key, value) ==
    IF \E k \in 1 .. Len(entries) : entries[k][1] = key
    THEN [k \in 1 .. Len(entries) |->
             IF entries[k][1] = key THEN <<key, value>> ELSE entries[k]]
    ELSE IF isArrayIndex(key)
    THEN LET before == SelectSeq(entries,
                           LAMBDA e : isArrayIndex(e[1]) /\ e[1][1] < key[1])
             after == SelectSeq(entries,
                          LAMBDA e : ~(isArrayIndex(e[1]) /\ e[1][1] < key[1]))
         IN  before \o <<(<<key, value>>)>> \o after
    ELSE Append(entries, <<key, value>>)

----------------------------------------------------------------------------
(* Inputs *)

\* code points of the enumerated levenshteinDistance inputs: a, b and
\* U+1F642, which UTF-16 encodes as the two units 55357, 56898
LevCodePoints == {97, 98, 128578}

LevStrings == {fromCodePoints(cps) : cps \in SeqsUpTo(LevCodePoints, MaxLen)}

Kitten == <<107, 105, 116, 116, 101, 110>>
Sitting == <<115, 105, 116, 116, 105, 110, 103>>
Saturday == <<115, 97, 116, 117, 114, 100, 97, 121>>
Sunday == <<115, 117, 110, 100, 97, 121>>
Book == <<98, 111, 111, 107>>
Back == <<98, 97, 99, 107>>
SlightlySmiling == fromCodePoints(<<128578>>)
UpsideDown == fromCodePoints(<<128579>>)
PartyPopper == fromCodePoints(<<127881>>)

\* the pairs of test/levenshtein-distance.test.ts the claims quote, both ways
\* round, and two pairs of characters outside the basic multilingual plane
LevScenarios ==
    LET pairs == {<<Kitten, Sitting>>, <<Saturday, Sunday>>, <<Book, Back>>,
                  <<SlightlySmiling, UpsideDown>>, <<SlightlySmiling, PartyPopper>>}
    IN  pairs \cup {<<p[2], p[1]>> : p \in pairs}

LevInputs == (LevStrings \X LevStrings) \cup LevScenarios

\* characters of the enumerated tables and public calls: 1 and l
NormChars == {49, 108}

NormStrings == SeqsUpTo(NormChars, MaxStr)

\* canonical forms: l, 1 and the two-character l1 (as m has the canonical rn)
Canonicals == {<<108>>, <<49>>, <<108, 49>>}

\* confusables strings: 1, l, 1l
ConfusableStrings == {<<49>>, <<108>>, <<49, 108>>}

\* [["l","1"],["O","0\u{1D7CE}"],["rn","m"]]: the groups of the shipped table
\* that the README and the tests rely on
SampleTable ==
    << <<(<<108>>), (<<49>>)>>,
       <<(<<79>>), (<<48, 55349, 57294>>)>>,
       <<(<<114, 110>>), (<<109>>)>> >>

Tables ==
    {t \in SeqsUpTo(Canonicals \X ConfusableStrings, MaxPairs) : t # << >>}
        \cup {SampleTable}

\* keys of the enumerated flat data: 1, l and U+1D7CE (two units)
FlatKeys == {<<49>>, <<108>>, <<55349, 57294>>}

\* the entries in order name each key at most once
distinctKeys(data) ==
    \A i, j \in 1 .. Len(data) : data[i][1] = data[j][1] => i = j

\* flat data: up to MaxEntries entries [confusable, canonical], keys distinct
FlatData == {d \in SeqsUpTo(FlatKeys \X Canonicals, MaxEntries) : distinctKeys(d)}

\* character codes of the enumerated calls of min: A, B, a
MinCodes == {65, 66, 97}

\* the calls of min the tests make
MinScenarios ==
    {<<1, 2, 3, 65, 66>>, <<5, 2, 3, 65, 66>>, <<1, 2, 3, 65, 65>>,
     <<5, 3, 7, 97, 97>>, <<0, 1, 2, 65, 66>>, <<10, 5, 8, 65, 66>>}

\* arguments (d0, d1, d2, bx, ay) of the enumerated calls of min
MinInputs ==
    ((0 .. MaxDist) \X (0 .. MaxDist) \X (0 .. MaxDist) \X MinCodes \X MinCodes)
        \cup MinScenarios

\* strings the concurrent callers normalize: "1" and "l1"
CallerStrings == {<<49>>, <<108, 49>>}

Paypa1 == <<112, 97, 121, 112, 97, 49>>
Paypal == <<112, 97, 121, 112, 97, 108>>
Hell0 == <<72, 69, 76, 76, 48>>
Hello == <<72, 69, 76, 76, 79>>
HellBoldZero == <<72, 69, 76, 76, 55349, 57294>>
Admin == <<97, 100, 109, 105, 110>>
Adm1n == <<97, 100, 109, 49, 110>>
Emoji1 == <<49>> \o PartyPopper

ScenarioStrings == {Paypa1, Paypal, Hell0, Hello, HellBoldZero, Admin, Adm1n, Emoji1}

ScenarioPairs ==
    {<<Paypa1, Paypal>>, <<Hell0, Hello>>, <<HellBoldZero, Hello>>,
     <<Admin, Adm1n>>, <<Emoji1, PartyPopper>>}

\* "# x": a comment
LineComment == <<35, 32, 120>>

\* "31 ; 6C ; x": 1 -> l, with a trailing comment field
LineOne == <<51, 49, 32, 59, 32, 54, 67, 32, 59, 32, 120>>

\* "6C ; 31": l -> 1
LineEll == <<54, 67, 32, 59, 32, 51, 49>>

\* "6D ; 72 6E ; x": m -> rn
LineEm == <<54, 68, 32, 59, 32, 55, 50, 32, 54, 69, 32, 59, 32, 120>>

\* "31 ; 49": 1 -> I
LineOneAgain == <<51, 49, 32, 59, 32, 52, 57>>

\* "31 6C": the separator is missing
LineNoSemicolon == <<51, 49, 32, 54, 67>>

\* "31 ; ; x": the destination is empty
LineNoDestination == <<51, 49, 32, 59, 32, 59, 32, 120>>

\* "zz ; 6C": the source is no hexadecimal number
LineBadSource == <<122, 122, 32, 59, 32, 54, 67>>

\* "31 ; zz": the destination is no hexadecimal number
LineBadDestination == <<51, 49, 32, 59, 32, 122, 122>>

\* "3z ; 6C": the source has a stray character after a digit
LineBadTail == <<51, 122, 32, 59, 32, 54, 67>>

\* lines of the enumerated sources, the empty line among them
SourceLines ==
    {<< >>, LineComment, LineOne, LineEll, LineEm, LineOneAgain,
     LineNoSemicolon, LineNoDestination, LineBadSource, LineBadDestination, LineBadTail}

\* the responses of the enumerated refreshes: up to MaxLines lines
Sources == SeqsUpTo(SourceLines, MaxLines)

\* a string that is one unpaired high surrogate
LoneSurrogate == <<55357>>

\* tables of the stepped getConfusableDistance calls: one pair, or the sample
TotalTables == {t \in Tables : Len(t) = 1} \cup {SampleTable}

\* arguments of the stepped getConfusableDistance calls
TotalPairs ==
    (NormStrings \X NormStrings) \cup ScenarioPairs \cup LevScenarios
        \cup {<<LoneSurrogate, <<49>>>>, <<<< >>, LoneSurrogate>>}

----------------------------------------------------------------------------
(* State machine *)

\* cached: whether normalizationMap was already set when the call began
noCall ==
    [pc |-> "idle", op |-> "none", a |-> << >>, b |-> << >>,
     normA |-> << >>, normB |-> << >>, out |-> << >>, ret |-> 0,
     cached |-> FALSE]

\* the refresh script not run
noRefresh ==
    [pc |-> "idle", ok |-> TRUE, source |-> << >>, i |-> 0,
     data |-> << >>, compact |-> << >>, file |-> << >>,
     viaCompact |-> << >>, viaFlat |-> << >>]

\* no caller waiting
noCallers == [encoding |-> "compact", data |-> << >>, running |-> 0, who |-> << >>]

module == [normalizationMap |-> normalizationMap, builds |-> builds]

\* a caller invokes normalizeConfusables(str)
CallNormalize ==
    /\ call.pc = "idle"
    /\ \E str \in NormStrings \cup ScenarioStrings :
          LET r == normalizeConfusables(module, compact, str)
          IN  /\ normalizationMap' = r.mod.normalizationMap
              /\ builds' = r.mod.builds
              /\ call' = [noCall EXCEPT !.pc = "returned",
                                        !.op = "normalizeConfusables",
                                        !.cached = (Len(normalizationMap) = 1),
                                        !.a = str, !.out = r.out]
    /\ UNCHANGED <<frame, compact, refresh, callers>>

\* a caller invokes getConfusableDistance(a, b)
CallDistance ==
    /\ call.pc = "idle"
    /\ \E p \in (NormStrings \X NormStrings) \cup ScenarioPairs :
          LET r == getConfusableDistance(module, compact, p[1], p[2])
          IN  /\ normalizationMap' = r.mod.normalizationMap
              /\ builds' = r.mod.builds
              /\ call' = [noCall EXCEPT !.pc = "returned",
                                        !.op = "getConfusableDistance",
                                        !.cached = (Len(normalizationMap) = 1),
                                        !.a = p[1], !.b = p[2],
                                        !.normA = r.normA, !.normB = r.normB,
                                        !.ret = r.ret]
    /\ UNCHANGED <<frame, compact, refresh, callers>>

\* the caller has its result; the module is ready for the next call
Return ==
    /\ call.pc = "returned"
    /\ call' = noCall
    /\ UNCHANGED <<frame, compact, normalizationMap, builds, refresh, callers>>

Init ==
    /\ compact \in Tables
    /\ normalizationMap = << >>
    /\ builds = 0
    /\ call = noCall
    /\ frame = noFrame
    /\ refresh = noRefresh
    /\ callers = noCallers

Next == CallNormalize \/ CallDistance \/ Return

Spec == Init /\ [][Next]_vars

(* levenshteinDistance alone, one call per behaviour, stepped through *)

LevEnter ==
    /\ frame.pc = "call"
    /\ frame' = step(frame)
    /\ UNCHANGED <<compact, normalizationMap, builds, call, refresh, callers>>

LevMainIteration ==
    /\ frame.pc = "main"
    /\ frame.x < frame.lb - 3
    /\ frame' = step(frame)
    /\ UNCHANGED <<compact, normalizationMap, builds, call, refresh, callers>>

LevMainExit ==
    /\ frame.pc = "main"
    /\ ~(frame.x < frame.lb - 3)
    /\ frame' = step(frame)
    /\ UNCHANGED <<compact, normalizationMap, builds, call, refresh, callers>>

LevCleanupIteration ==
    /\ frame.pc = "cleanup"
    /\ frame.x < frame.lb
    /\ frame' = step(frame)
    /\ UNCHANGED <<compact, normalizationMap, builds, call, refresh, callers>>

LevReturn ==
    /\ frame.pc = "cleanup"
    /\ ~(frame.x < frame.lb)
    /\ frame' = step(frame)
    /\ UNCHANGED <<compact, normalizationMap, builds, call, refresh, callers>>

LevInit ==
    /\ frame \in {newFrame(p[1], p[2]) : p \in LevInputs}
    /\ compact = << >>
    /\ normalizationMap = << >>
    /\ builds = 0
    /\ call = noCall
    /\ refresh = noRefresh
    /\ callers = noCallers

LevNext ==
    LevEnter \/ LevMainIteration \/ LevMainExit \/ LevCleanupIteration \/ LevReturn

SpecLev == LevInit /\ [][LevNext]_vars

(* The two encodings of one table: the script encodes the parsed data, the  *)
(* module of each encoding decodes its own form on first use                 *)

\* the parsed data is encoded (main, line 97)
Encode ==
    /\ refresh.pc = "parsed"
    /\ refresh' = [refresh EXCEPT !.pc = "encoded",
                                  !.compact = encodeCompact(refresh.data)]
    /\ UNCHANGED <<frame, compact, normalizationMap, builds, call, callers>>

\* a module of the compact encoding makes its first access
LoadCompact ==
    /\ refresh.pc = "encoded"
    /\ Len(refresh.viaCompact) = 0
    /\ refresh' = [refresh EXCEPT !.viaCompact =
            getNormalizationMap(freshModule, refresh.compact).normalizationMap]
    /\ UNCHANGED <<frame, compact, normalizationMap, builds, call, callers>>

\* a module of the flat encoding makes its first access
LoadFlat ==
    /\ refresh.pc = "encoded"
    /\ Len(refresh.viaFlat) = 0
    /\ refresh' = [refresh EXCEPT !.viaFlat =
            flatGetNormalizationMap(freshModule, refresh.data).normalizationMap]
    /\ UNCHANGED <<frame, compact, normalizationMap, builds, call, callers>>

TableInit ==
    /\ refresh \in {[noRefresh EXCEPT !.pc = "parsed", !.data = d] : d \in FlatData}
    /\ compact = << >>
    /\ normalizationMap = << >>
    /\ builds = 0
    /\ call = noCall
    /\ frame = noFrame
    /\ callers = noCallers

TableNext == Encode \/ LoadCompact \/ LoadFlat

SpecTable == TableInit /\ [][TableNext]_vars

(* Several callers whose first call is pending at the same time. Each call  *)
(* is synchronous code: once a call is on the stack the runtime runs it to   *)
(* its return before any other caller's code starts. The steps of a call     *)
(* are the statements of getNormalizationMap and the lookup that follows.    *)

\* a caller that has not started its call
waiting ==
    [pc |-> "waiting", str |-> << >>, i |-> 0, map |-> << >>,
     seen |-> << >>, out |-> << >>]

\* any caller's call may start while another call is on the stack
mayEnterPreemptive == TRUE

\* run to completion: a call starts only when no call is on the stack
mayEnter == callers.running = 0

\* caller c calls normalizeConfusables(str)
Enter(c) ==
    /\ callers.who[c].pc = "waiting"
    /\ mayEnter
    /\ \E str \in CallerStrings :
          callers' = [callers EXCEPT !.running = c,
                                     !.who[c].pc = "test",
                                     !.who[c].str = str]
    /\ UNCHANGED <<frame, compact, normalizationMap, builds, call, refresh>>

\* if (!normalizationMap): compact line 39, flat lines 69-70, where the flat
\* encoding assigns the new empty Map before filling it
TestNull(c) ==
    /\ callers.who[c].pc = "test"
    /\ IF Len(normalizationMap) = 1
       THEN /\ callers' = [callers EXCEPT !.who[c].pc = "lookup"]
            /\ UNCHANGED <<normalizationMap, builds>>
       ELSE IF callers.encoding = "compact"
       THEN /\ callers' = [callers EXCEPT !.who[c].pc = "decode",
                                          !.who[c].i = 1,
                                          !.who[c].map = << >>]
            /\ UNCHANGED <<normalizationMap, builds>>
       ELSE /\ callers' = [callers EXCEPT !.who[c].pc = "entries",
                                          !.who[c].i = 1]
            /\ normalizationMap' = << << >> >>
            /\ builds' = builds + 1
    /\ UNCHANGED <<frame, compact, call, refresh>>

\* decodeCompact, one pair of the loop of lines 19-29 on its local map
DecodePair(c) ==
    /\ callers.who[c].pc = "decode"
    /\ callers.who[c].i <= Len(compact)
    /\ callers' = [callers EXCEPT
            !.who[c].map = decodePair(callers.who[c].map, compact[callers.who[c].i]),
            !.who[c].i = callers.who[c].i + 1]
    /\ UNCHANGED <<frame, compact, normalizationMap, builds, call, refresh>>

\* decodeCompact returns and line 40 assigns its map
AssignDecoded(c) ==
    /\ callers.who[c].pc = "decode"
    /\ callers.who[c].i > Len(compact)
    /\ normalizationMap' = <<callers.who[c].map>>
    /\ builds' = builds + 1
    /\ callers' = [callers EXCEPT !.who[c].pc = "lookup"]
    /\ UNCHANGED <<frame, compact, call, refresh>>

\* flat lines 72-74, one entry, or the end of that loop
FillEntry(c) ==
    /\ callers.who[c].pc = "entries"
    /\ LET i == callers.who[c].i
       IN  IF i <= Len(callers.data)
           THEN /\ normalizationMap' =
                       <<mapSet(normalizationMap[1], callers.data[i][1],
                                callers.data[i][2])>>
                /\ callers' = [callers EXCEPT !.who[c].i = i + 1]
           ELSE /\ callers' = [callers EXCEPT !.who[c].pc = "canonicals",
                                              !.who[c].i = 1]
                /\ UNCHANGED normalizationMap
    /\ UNCHANGED <<frame, compact, builds, call, refresh>>

\* flat lines 76-80, one canonical, or the end of that loop
FillCanonical(c) ==
    /\ callers.who[c].pc = "canonicals"
    /\ LET i == callers.who[c].i
       IN  IF i <= Len(callers.data)
           THEN /\ normalizationMap' =
                       <<IF callers.data[i][2] \in DOMAIN normalizationMap[1]
                         THEN normalizationMap[1]
                         ELSE mapSet(normalizationMap[1], callers.data[i][2],
                                     callers.data[i][2])>>
                /\ callers' = [callers EXCEPT !.who[c].i = i + 1]
           ELSE /\ callers' = [callers EXCEPT !.who[c].pc = "lookup"]
                /\ UNCHANGED normalizationMap
    /\ UNCHANGED <<frame, compact, builds, call, refresh>>

\* return normalizationMap, then the lookups of normalizeConfusables and its
\* return, which leaves the stack empty
Lookup(c) ==
    /\ callers.who[c].pc = "lookup"
    /\ callers' = [callers EXCEPT
            !.running = 0,
            !.who[c].pc = "done",
            !.who[c].seen = normalizationMap,
            !.who[c].out = joinMapped(normalizationMap[1],
                                      stringIterator(callers.who[c].str))]
    /\ UNCHANGED <<frame, compact, normalizationMap, builds, call, refresh>>

CallersInit ==
    /\ callers \in {[encoding |-> e, data |-> d, running |-> 0,
                     who |-> [c \in 1 .. NumCallers |-> waiting]] :
                        e \in {"compact", "flat"}, d \in FlatData}
    /\ compact = encodeCompact(callers.data)
    /\ normalizationMap = << >>
    /\ builds = 0
    /\ call = noCall
    /\ frame = noFrame
    /\ refresh = noRefresh

CallersNext ==
    \E c \in 1 .. NumCallers :
        \/ Enter(c)
        \/ TestNull(c)
        \/ DecodePair(c)
        \/ AssignDecoded(c)
        \/ FillEntry(c)
        \/ FillCanonical(c)
        \/ Lookup(c)

SpecCallers == CallersInit /\ [][CallersNext]_vars

(* One call of getConfusableDistance stepped through: the two               *)
(* normalizations, then levenshteinDistance by its own steps, then the       *)
(* return. The call is synchronous: the runtime keeps executing it.          *)

\* line 14: const normA = normalizeConfusables(a)
NormalizeA ==
    /\ call.pc = "entered"
    /\ LET r == normalizeConfusables(module, compact, call.a)
       IN  /\ normalizationMap' = r.mod.normalizationMap
           /\ builds' = r.mod.builds
           /\ call' = [call EXCEPT !.pc = "normalizedA", !.normA = r.out]
    /\ UNCHANGED <<frame, compact, refresh, callers>>

\* line 15: const normB = normalizeConfusables(b)
NormalizeB ==
    /\ call.pc = "normalizedA"
    /\ LET r == normalizeConfusables(module, compact, call.b)
       IN  /\ normalizationMap' = r.mod.normalizationMap
           /\ builds' = r.mod.builds
           /\ call' = [call EXCEPT !.pc = "normalizedB", !.normB = r.out]
    /\ UNCHANGED <<frame, compact, refresh, callers>>

\* line 17: levenshteinDistance(normA, normB) is called
CallLev ==
    /\ call.pc = "normalizedB"
    /\ call' = [call EXCEPT !.pc = "distance"]
    /\ frame' = newFrame(call.normA, call.normB)
    /\ UNCHANGED <<compact, normalizationMap, builds, refresh, callers>>

\* line 17: return of the value levenshteinDistance returned
TotalReturn ==
    /\ call.pc = "distance"
    /\ frame.pc = "done"
    /\ call' = [call EXCEPT !.pc = "returned", !.ret = frame.ret]
    /\ UNCHANGED <<frame, compact, normalizationMap, builds, refresh, callers>>

TotalInit ==
    /\ compact \in TotalTables
    /\ call \in {[noCall EXCEPT !.pc = "entered", !.op = "getConfusableDistance",
                                !.a = p[1], !.b = p[2]] : p \in TotalPairs}
    /\ normalizationMap = << >>
    /\ builds = 0
    /\ frame = noFrame
    /\ refresh = noRefresh
    /\ callers = noCallers

TotalNext ==
    \/ NormalizeA
    \/ NormalizeB
    \/ CallLev
    \/ LevEnter
    \/ LevMainIteration
    \/ LevMainExit
    \/ LevCleanupIteration
    \/ LevReturn
    \/ TotalReturn

SpecTotal == TotalInit /\ [][TotalNext]_vars /\ WF_vars(TotalNext)

(* The refresh script: main fetches the source, parses it line by line,     *)
(* encodes the result and writes the table file. A throw ends the script.    *)

\* lines 24-29: the response arrives; a response that is not ok throws
Fetch ==
    /\ refresh.pc = "start"
    /\ refresh' = IF refresh.ok
                  THEN [refresh EXCEPT !.pc = "fetched", !.i = 1]
                  ELSE [refresh EXCEPT !.pc = "aborted"]
    /\ UNCHANGED <<frame, compact, normalizationMap, builds, call, callers>>

\* lines 41-61: one line of the source goes through filter and forEach
ParseLine ==
    /\ refresh.pc = "fetched"
    /\ refresh.i <= Len(refresh.source)
    /\ LET r == parseLine(refresh.source[refresh.i])
       IN  refresh' =
               IF r.kind = "thrown" THEN [refresh EXCEPT !.pc = "aborted"]
               ELSE IF r.kind = "entry"
               THEN [refresh EXCEPT !.i = refresh.i + 1,
                                    !.data = objectSet(refresh.data, r.src, r.dst)]
               ELSE [refresh EXCEPT !.i = refresh.i + 1]
    /\ UNCHANGED <<frame, compact, normalizationMap, builds, call, callers>>

\* line 63: parseConfusables returns its result
ParseReturn ==
    /\ refresh.pc = "fetched"
    /\ refresh.i > Len(refresh.source)
    /\ refresh' = [refresh EXCEPT !.pc = "parsed"]
    /\ UNCHANGED <<frame, compact, normalizationMap, builds, call, callers>>

\* line 99: fs.writeFileSync(SAVE_PATH, JSON.stringify(compact))
WriteFile ==
    /\ refresh.pc = "encoded"
    /\ refresh' = [refresh EXCEPT !.pc = "written", !.file = <<refresh.compact>>]
    /\ UNCHANGED <<frame, compact, normalizationMap, builds, call, callers>>

RefreshInit ==
    /\ refresh \in {[noRefresh EXCEPT !.pc = "start", !.ok = ok, !.source = src] :
                        ok \in BOOLEAN, src \in Sources}
    /\ compact = << >>
    /\ normalizationMap = << >>
    /\ builds = 0
    /\ call = noCall
    /\ frame = noFrame
    /\ callers = noCallers

RefreshNext == Fetch \/ ParseLine \/ ParseReturn \/ Encode \/ WriteFile

SpecRefresh == RefreshInit /\ [][RefreshNext]_vars

(* min alone, called directly as the tests call it *)

\* a caller about to call min(d0, d1, d2, bx, ay)
minPending(args) ==
    [pc |-> "min", op |-> "min", d0 |-> args[1], d1 |-> args[2], d2 |-> args[3],
     bx |-> args[4], ay |-> args[5], ret |-> 0]

\* the call of min is made and returns
MinApply ==
    /\ call.pc = "min"
    /\ call' = [call EXCEPT !.pc = "minReturned",
                            !.ret = min(call.d0, call.d1, call.d2, call.bx, call.ay)]
    /\ UNCHANGED <<frame, compact, normalizationMap, builds, refresh, callers>>

MinInit ==
    /\ call \in {minPending(args) : args \in MinInputs}
    /\ compact = << >>
    /\ normalizationMap = << >>
    /\ builds = 0
    /\ frame = noFrame
    /\ refresh = noRefresh
    /\ callers = noCallers

MinNext == MinApply

SpecMin == MinInit /\ [][MinNext]_vars

----------------------------------------------------------------------------
(* Claims *)

returned(f) == f.pc = "done"


\* absolute value and maximum of integers
Abs(n) == IF n < 0 THEN -n ELSE n
Max2(p, q) == IF p > q THEN p ELSE q

\* C1: a finished call of levenshteinDistance(a, b) returned the reference
\* Levenshtein distance of a and b, the characters being the elements of the
\* strings as the code reads them (charCodeAt); kitten/sitting = 3,
\* saturday/sunday = 3, book/back = 2.
C1_EqualsReference ==
    returned(frame) =>
        /\ frame.ret = RefDistance(frame.argA, frame.argB)
        /\ (frame.argA = Kitten /\ frame.argB = Sitting) => frame.ret = 3
        /\ (frame.argA = Saturday /\ frame.argB = Sunday) => frame.ret = 3
        /\ (frame.argA = Book /\ frame.argB = Back) => frame.ret = 2

\* C1 witness: kitten/sitting went through the main and the cleanup loop
C1_Witness ==
    /\ returned(frame)
    /\ frame.argA = Kitten /\ frame.argB = Sitting
    /\ frame.path = "dp" /\ frame.x = 7 /\ frame.ret = 3

\* a string element of two UTF-16 units: a character outside the basic
\* multilingual plane
isAstral(char) == Len(char) = 2

\* s and t have as many code points and differ in exactly one, which in s or in
\* t lies outside the basic multilingual plane
oneAstralReplaced(s, t) ==
    LET cs == stringIterator(s)
        ct == stringIterator(t)
    IN  /\ Len(cs) = Len(ct)
        /\ \E i \in 1 .. Len(cs) :
              /\ cs[i] # ct[i]
              /\ isAstral(cs[i]) \/ isAstral(ct[i])
              /\ \A j \in 1 .. Len(cs) : j # i => cs[j] = ct[j]

\* every code point of s lies outside the basic multilingual plane
allAstral(s) == \A i \in 1 .. Len(stringIterator(s)) : isAstral(stringIterator(s)[i])

\* C2: the comparison unit is the code point: replacing one character outside
\* the basic multilingual plane by any other single character gives distance
\* 1, and the distance from the empty string to n such characters is n.
C2_CodePointUnits ==
    returned(frame) =>
        /\ oneAstralReplaced(frame.argA, frame.argB) => frame.ret = 1
        /\ (frame.argA = << >> /\ allAstral(frame.argB)) =>
                frame.ret = codePointLength(frame.argB)

\* C3: a finished call levenshteinDistance(a, b) returned what
\* levenshteinDistance(b, a) returns.
C3_Symmetric ==
    returned(frame) => frame.ret = levenshteinDistance(frame.argB, frame.argA)

\* C3 witness: a longer first argument (the swap is taken) and the loops ran
C3_Witness ==
    /\ returned(frame)
    /\ Len(frame.argA) > Len(frame.argB)
    /\ frame.path = "dp" /\ frame.ret > 0

\* C4: levenshteinDistance(s, s) returns 0 from the identity short-circuit:
\* the call never reaches the loops and no local is assigned.
C4_IdentityShortCircuit ==
    frame.argA = frame.argB =>
        /\ frame.pc \in {"idle", "call", "done"}
        /\ returned(frame) =>
              frame = [newFrame(frame.argA, frame.argB) EXCEPT
                          !.pc = "done", !.ret = 0, !.path = "identity"]

\* C4 witness: a finished call on two equal strings of four characters, and
\* (in another behaviour) one on two empty strings
C4_Witness ==
    /\ returned(frame)
    /\ frame.argA = frame.argB
    /\ Len(frame.argA) = 4
    /\ frame.path = "identity"

\* C5: abs(len(a) - len(b)) <= levenshteinDistance(a, b) <= max(len(a), len(b)),
\* len counting code points.
C5_LengthBounds ==
    returned(frame) =>
        LET la == codePointLength(frame.argA)
            lb == codePointLength(frame.argB)
        IN  Abs(la - lb) <= frame.ret /\ frame.ret <= Max2(la, lb)

\* C6: with an empty argument the call returns the length of the other
\* argument (its .length), in either order; two empty strings give 0.
C6_EmptyArgument ==
    returned(frame) =>
        /\ frame.argA = << >> => frame.ret = Len(frame.argB)
        /\ frame.argB = << >> => frame.ret = Len(frame.argA)

\* C6 witness: an empty second argument and a first argument of three units
C6_Witness ==
    /\ returned(frame)
    /\ frame.argB = << >>
    /\ Len(frame.argA) = 3
    /\ frame.ret = 3


\* normalizeConfusables(str) under table data, computed from a fresh module
normalized(data, str) == normalizeConfusables(freshModule, data, str).out

distanceReturned == call.pc = "returned" /\ call.op = "getConfusableDistance"
normalizeReturned == call.pc = "returned" /\ call.op = "normalizeConfusables"

\* C7: a finished call getConfusableDistance(a, b) returned
\* levenshteinDistance(normalizeConfusables(a), normalizeConfusables(b)): both
\* arguments were normalized with the table's map and the distance of the two
\* normalized strings is the result as it is.
C7_ComposesNormalizeThenDistance ==
    distanceReturned =>
        /\ call.normA = normalized(compact, call.a)
        /\ call.normB = normalized(compact, call.b)
        /\ call.ret = levenshteinDistance(normalized(compact, call.a),
                                          normalized(compact, call.b))

\* C7 witness: both arguments changed under normalization, differently, and a
\* positive distance came back
C7_Witness ==
    /\ distanceReturned
    /\ call.normA # call.a /\ call.normB # call.b
    /\ call.normA # call.normB
    /\ call.ret > 0

\* C8: when the two arguments normalize to the same string,
\* getConfusableDistance returns 0; with the table [l <- 1, O <- 0, ...] that
\* is so for paypa1/paypal and for HELL0/HELLO.
C8_ConfusablyEqualIsZero ==
    distanceReturned =>
        /\ normalized(compact, call.a) = normalized(compact, call.b) => call.ret = 0
        /\ (compact = SampleTable /\ call.a = Paypa1 /\ call.b = Paypal) => call.ret = 0
        /\ (compact = SampleTable /\ call.a = Hell0 /\ call.b = Hello) => call.ret = 0

\* C8 witness: paypa1/paypal under the sample table: different arguments, equal
\* normal forms, distance 0
C8_Witness ==
    /\ distanceReturned
    /\ compact = SampleTable
    /\ call.a = Paypa1 /\ call.b = Paypal
    /\ call.normA = Paypal /\ call.normB = Paypal
    /\ call.ret = 0

\* C9: for every table and every string s, normalizing the result of
\* normalizeConfusables(s) again gives the same string.
C9_Idempotent ==
    normalizeReturned => normalized(compact, call.out) = call.out

\* the canonical values of a compact table
canonicalsOf(data) == {data[i][1] : i \in 1 .. Len(data)}

\* every code point of s is a canonical value of the table
onlyCanonical(data, s) ==
    \A i \in 1 .. Len(stringIterator(s)) : stringIterator(s)[i] \in canonicalsOf(data)

\* C10: in the map decodeCompact built, every canonical value maps to itself,
\* and normalizeConfusables returns a string of canonical characters unchanged.
C10_CanonicalFixed ==
    /\ Len(normalizationMap) = 1 =>
          \A c \in canonicalsOf(compact) :
              c \in DOMAIN normalizationMap[1] /\ normalizationMap[1][c] = c
    /\ (normalizeReturned /\ onlyCanonical(compact, call.a)) => call.out = call.a


\* the code points of a string, as numbers, read from its end: a low surrogate
\* preceded by a high surrogate closes a pair
RECURSIVE codePointsOf(_)
codePointsOf(s) ==
    IF s = << >> THEN << >>
    ELSE LET n == Len(s)
         IN  IF n >= 2 /\ isLowSurrogate(s[n]) /\ isHighSurrogate(s[n - 1])
             THEN Append(codePointsOf(SubSeq(s, 1, n - 2)),
                         65536 + (s[n - 1] - 55296) * 1024 + (s[n] - 56320))
             ELSE Append(codePointsOf(SubSeq(s, 1, n - 1)), s[n])

\* what the table's map makes of code point cp: its entry, or the character
imageOf(map, cp) ==
    IF fromCodePoint(cp) \in DOMAIN map THEN map[fromCodePoint(cp)] ELSE fromCodePoint(cp)

\* the images of the code points cps[1..n], concatenated in order
RECURSIVE imagesUpTo(_, _, _)
imagesUpTo(map, cps, n) ==
    IF n = 0 THEN << >> ELSE imagesUpTo(map, cps, n - 1) \o imageOf(map, cps[n])

\* C11: normalizeConfusables(s) returns the in-order concatenation of map[c]
\* for the characters c of s that are keys of the map and of c itself for the
\* others; a string with no mapped character, and the empty string, come back
\* unchanged.
C11_MapsInOrderKeepsUnmapped ==
    normalizeReturned =>
        LET map == decodeCompact(compact)
            cps == codePointsOf(call.a)
        IN  /\ call.out = imagesUpTo(map, cps, Len(cps))
            /\ (\A i \in 1 .. Len(cps) : fromCodePoint(cps[i]) \notin DOMAIN map)
                  => call.out = call.a
            /\ call.a = << >> => call.out = << >>

\* C11 witness: 1 followed by U+1F389 under a table that maps 1 and has no
\* entry for U+1F389: the first character is replaced, the second kept
C11_Witness ==
    /\ normalizeReturned
    /\ call.a = Emoji1
    /\ <<49>> \in DOMAIN normalizationMap[1]
    /\ PartyPopper \notin DOMAIN normalizationMap[1]
    /\ call.out = normalizationMap[1][<<49>>] \o PartyPopper
    /\ call.out # call.a

singleCanonicals(map, s) ==
    \A i \in 1 .. Len(stringIterator(s)) :
        stringIterator(s)[i] \in DOMAIN map
            => codePointLength(map[stringIterator(s)[i]]) = 1

\* the code points of the images of the characters of s, counted one by one
RECURSIVE imageLengths(_, _, _)
imageLengths(map, cps, n) ==
    IF n = 0 THEN 0
    ELSE imageLengths(map, cps, n - 1) + codePointLength(imageOf(map, cps[n]))

bothLoaded == Len(refresh.viaCompact) = 1 /\ Len(refresh.viaFlat) = 1

\* C13: for every flat data, the map decoded from encodeCompact(data) has
\* exactly the keys and values of the map the flat construction builds from
\* data.
C13_EncodingsAgree ==
    bothLoaded =>
        /\ DOMAIN refresh.viaCompact[1] = DOMAIN refresh.viaFlat[1]
        /\ \A k \in DOMAIN refresh.viaFlat[1] :
              refresh.viaCompact[1][k] = refresh.viaFlat[1][k]

\* C13 witness: two confusables of one canonical, one of them of two UTF-16
\* units and the other a canonical's own character: one group in the compact
\* form, three keys in both maps
C13_Witness ==
    /\ bothLoaded
    /\ refresh.data = << <<(<<55349, 57294>>), (<<108, 49>>)>>,
                         <<(<<49>>), (<<108, 49>>)>> >>
    /\ Len(refresh.compact) = 1
    /\ Cardinality(DOMAIN refresh.viaCompact[1]) = 3


\* the module state is consistent: the map is built at most once, and a built
\* map is the decoded table
builtOnce ==
    /\ builds <= 1
    /\ (builds = 1) = (Len(normalizationMap) = 1)
    /\ Len(normalizationMap) = 1 => normalizationMap[1] = decodeCompact(compact)

\* a step keeps a built map as it is, and a call on a module without a map
\* builds it
builtThenFixed ==
    /\ Len(normalizationMap) = 1 =>
          normalizationMap' = normalizationMap /\ builds' = builds
    /\ (Len(normalizationMap) = 0 /\ call.pc = "idle" /\ call'.pc = "returned") =>
          builds' = 1 /\ Len(normalizationMap') = 1

\* C14: over any sequence of normalizeConfusables / getConfusableDistance
\* calls the map is constructed exactly once, by the first call, and is then
\* never reassigned nor changed in any entry.
C14_BuiltOnceThenFixed == []builtOnce /\ [][builtThenFixed]_vars

\* C14 witness: a call made when the map was already built has returned and
\* the map has still been built once
C14_Witness ==
    /\ call.pc = "returned"
    /\ call.cached
    /\ builds = 1
    /\ Len(normalizationMap) = 1

\* C16: the value getConfusableDistance returns for (a, b) is the value a
\* first call on a fresh module would return for (a, b), whatever calls
\* came before.
C16_HistoryIndependent ==
    distanceReturned =>
        call.ret = getConfusableDistance(freshModule, compact, call.a, call.b).ret

\* C16 witness: a getConfusableDistance call made after the map was built,
\* with arguments the table changes, has returned a positive distance
C16_Witness ==
    /\ distanceReturned
    /\ call.cached
    /\ call.normA # call.a
    /\ call.ret > 0


\* the map of a table, stated directly: a confusable goes to its canonical,
\* a canonical that is no confusable goes to itself
fullMap(data) ==
    LET srcs == {data[i][1] : i \in 1 .. Len(data)}
        dsts == {data[i][2] : i \in 1 .. Len(data)}
    IN  [k \in srcs \cup dsts |->
            IF k \in srcs
            THEN data[CHOOSE i \in 1 .. Len(data) : data[i][1] = k][2]
            ELSE k]

sameMap(m1, m2) ==
    /\ DOMAIN m1 = DOMAIN m2
    /\ \A k \in DOMAIN m1 : m1[k] = m2[k]

decodedUpTo(pairs, i) == decodeFrom(<< >>, SubSeq(pairs, 1, i), 1)

\* C17: once decodeCompact has given a canonical value its self-mapping, after
\* the pair that names it, no later pair changes that entry: the returned
\* map still maps the canonical to itself.
C17_SelfMappingKept ==
    Len(normalizationMap) = 1 =>
        \A i \in 1 .. Len(compact) :
            LET c == compact[i][1]
                m == decodedUpTo(compact, i)
            IN  (c \in DOMAIN m /\ m[c] = c) =>
                    (c \in DOMAIN normalizationMap[1] /\ normalizationMap[1][c] = c)


\* the residual ranges a[offset .. offset+la) and b[offset .. offset+lb)
residualA(f) == SubSeq(f.a, f.offset + 1, f.offset + f.la)
residualB(f) == SubSeq(f.b, f.offset + 1, f.offset + f.lb)

\* the call is past the two stripping loops
stripped(f) == f.pc \in {"main", "cleanup", "done"} /\ f.path # "identity"

\* the call has just left the stripping loops: it returned in the degenerate
\* case or stands before the first column
justStripped(f) ==
    \/ f.pc = "done" /\ f.path = "degenerate"
    \/ f.pc = "main" /\ f.x = 0

\* C18: after the two stripping loops the reference distance of the residual
\* ranges is that of the original strings, la <= lb, and when la > 0 the
\* residual ranges differ in their first and in their last character.
C18_ElisionKeepsDistance ==
    stripped(frame) =>
        /\ justStripped(frame) =>
              RefDistance(residualA(frame), residualB(frame))
                  = RefDistance(frame.argA, frame.argB)
        /\ frame.la <= frame.lb
        /\ frame.la > 0 =>
              /\ residualA(frame)[1] # residualB(frame)[1]
              /\ residualA(frame)[frame.la] # residualB(frame)[frame.lb]

\* C18 witness: saturday/sunday, swapped, lost the prefix s and the suffix
\* day and went on with un / atur
C18_Witness ==
    /\ stripped(frame)
    /\ frame.argA = Saturday /\ frame.argB = Sunday
    /\ frame.offset = 1 /\ frame.la = 2 /\ frame.lb = 4
    /\ frame.path = "dp"

\* C19: a call that returned in the degenerate case (la = 0 or lb < 3 after
\* elision) returned lb, and lb is the reference distance of the original
\* strings.
C19_DegenerateIsDistance ==
    (returned(frame) /\ frame.path = "degenerate") =>
        /\ frame.la = 0 \/ frame.lb < 3
        /\ frame.ret = frame.lb
        /\ frame.ret = RefDistance(frame.argA, frame.argB)

\* C19 witness: a degenerate return with nothing of a used up: la = 2 = lb
\* after a stripped prefix
C19_Witness ==
    /\ returned(frame) /\ frame.path = "degenerate"
    /\ frame.la = 2 /\ frame.lb = 2 /\ frame.offset > 0
    /\ frame.ret = 2


\* the last cell of every row of the Wagner-Fischer matrix of s and t: the
\* reference distances of s's prefixes of length 1 .. Len(s) to t
RECURSIVE refLastCells(_, _, _, _, _)
refLastCells(prev, s, t, i, acc) ==
    IF i > Len(s) THEN acc
    ELSE \* row ranges over one value: the row of position i, computed once
         CHOOSE cells \in {refLastCells(row, s, t, i + 1, Append(acc, row[Len(t) + 1])) :
                               row \in {refRow(prev, s[i], t, 1, <<i>>)}} : TRUE

refColumn(s, t) == refLastCells([j \in 1 .. (Len(t) + 1) |-> j - 1], s, t, 1, << >>)

\* the call is between outer iterations: the vector is initialised and x
\* columns of b are processed
betweenIterations(f) == f.pc \in {"main", "cleanup"}

\* C20: after the vector's initialisation and after every outer iteration of
\* the main and of the cleanup loop, with x columns of b processed,
\* vector[2y] is the reference distance of the first y + 1 residual characters
\* of a and the first x residual characters of b, the odd entries are a's
\* residual character codes, dd is the last distance entry once a column is
\* processed, and the dd returned is the final cell: the reference distance
\* of the residuals.
C20_RollingVector ==
    /\ betweenIterations(frame) =>
          /\ frame.x <= frame.lb
          /\ DOMAIN frame.vector = 0 .. (2 * frame.la - 1)
          /\ LET column == refColumn(residualA(frame),
                                      SubSeq(residualB(frame), 1, frame.x))
             IN  \A y \in 0 .. (frame.la - 1) :
                    /\ frame.vector[2 * y] = column[y + 1]
                    /\ frame.vector[2 * y + 1] = residualA(frame)[y + 1]
          /\ frame.x > 0 => frame.dd = frame.vector[2 * frame.la - 2]
    /\ (returned(frame) /\ frame.path = "dp") =>
          /\ frame.x = frame.lb
          /\ frame.ret = frame.vector[2 * frame.la - 2]
          /\ frame.ret = RefDistance(residualA(frame), residualB(frame))

\* C20 witness: kitten/sitting after one iteration of the main loop and one
\* of the cleanup loop, five columns of sitting processed
C20_Witness ==
    /\ frame.pc = "cleanup"
    /\ frame.argA = Kitten /\ frame.argB = Sitting
    /\ frame.x = 5
    /\ frame.la = 6
    /\ frame.vector[10] = frame.dd


Min3(p, q, r) == Min2(p, Min2(q, r))

\* the cell value of the edit-distance recurrence from its neighbours: the
\* diagonal when the characters are equal, else 1 + the least of the three
recurrence(left, diagonal, top, bx, ay) ==
    IF bx = ay THEN diagonal ELSE 1 + Min3(left, top, diagonal)

\* C21: every call of min made by the last outer iteration of the main or of
\* the cleanup loop returned the value of the edit-distance recurrence for its
\* cell: its second argument (the diagonal) when the characters are equal,
\* else 1 + the least of its three distance arguments.
C21_MinIsRecurrence ==
    \A k \in DOMAIN frame.calls :
        LET c == frame.calls[k]
        IN  c.ret = recurrence(c.d0, c.d1, c.d2, c.bx, c.ay)

\* C21 witness: a main-loop iteration made calls with equal characters whose
\* left neighbour is below the diagonal (the first branch of min), and calls
\* with different characters
C21_Witness ==
    /\ frame.pc = "main" /\ frame.x = 4
    /\ \E k \in DOMAIN frame.calls :
          frame.calls[k].bx = frame.calls[k].ay /\ frame.calls[k].d0 < frame.calls[k].d1
    /\ \E k \in DOMAIN frame.calls : frame.calls[k].bx # frame.calls[k].ay


minReturned == call.pc = "minReturned"

isString(s) == \A i \in DOMAIN s : s[i] \in 0 .. 65535

\* the values a call has produced so far are well formed: the normalized
\* strings are strings, the distance is a non-negative integer, and x never
\* passes lb and equals lb when the DP phase has returned
totalValues ==
    /\ isString(call.normA) /\ isString(call.normB)
    /\ returned(frame) => frame.ret \in Nat
    /\ call.pc = "returned" => call.ret \in Nat /\ call.ret = frame.ret
    /\ frame.pc \in {"main", "cleanup"} => frame.x <= frame.lb
    /\ (returned(frame) /\ frame.path = "dp") => frame.x = frame.lb

\* a step inside the DP phase advances x: by 4 in the main loop, by 1 in the
\* cleanup loop, and not at all between the loops or at the return
xAdvances ==
    /\ (frame.pc = "main" /\ frame'.pc = "main") => frame'.x = frame.x + 4
    /\ (frame.pc = "cleanup" /\ frame'.pc = "cleanup") => frame'.x = frame.x + 1
    /\ (frame.pc \in {"main", "cleanup"} /\ frame'.pc # frame.pc) => frame'.x = frame.x

\* C23: every call terminates and returns without throwing: a started
\* getConfusableDistance call gets both normalized strings, its
\* levenshteinDistance call returns a non-negative integer, and in the DP
\* phase x strictly increases (by 4, then by 1) and ends at exactly lb.
C23_Total ==
    /\ []totalValues
    /\ [][xAdvances]_vars
    /\ (call.pc = "entered") ~> (call.pc = "normalizedB")
    /\ (frame.pc = "call") ~> returned(frame)
    /\ (call.pc = "entered") ~> (call.pc = "returned")

\* C23 witness: kitten/sitting went through the main loop once and the
\* cleanup loop three times, and the call returned 3
C23_Witness ==
    /\ call.pc = "returned"
    /\ call.a = Kitten /\ call.b = Sitting
    /\ frame.path = "dp" /\ frame.x = 7 /\ frame.lb = 7
    /\ call.ret = 3


isHexDigit(c) == (c >= 48 /\ c <= 57) \/ (c >= 65 /\ c <= 70) \/ (c >= 97 /\ c <= 102)

\* a line of the form "source ; destination [; comment]" with a hexadecimal
\* source code point and hexadecimal destination code points, read off the
\* characters of the line alone
wellFormedLine(line) ==
    \E p \in 1 .. Len(line) :
        /\ line[p] = 59
        /\ \A k \in 1 .. (p - 1) : line[k] # 59
        /\ \E k \in 1 .. (p - 1) : isHexDigit(line[k])
        /\ \A k \in 1 .. (p - 1) : isHexDigit(line[k]) \/ isSpace(line[k])
        /\ \A j, k, l \in 1 .. (p - 1) :
              (j < k /\ k < l /\ isHexDigit(line[j]) /\ isHexDigit(line[l])) =>
                  isHexDigit(line[k])
        /\ LET q == IF \E k \in (p + 1) .. Len(line) : line[k] = 59
                    THEN CHOOSE k \in (p + 1) .. Len(line) :
                             line[k] = 59 /\ \A m \in (p + 1) .. (k - 1) : line[m] # 59
                    ELSE Len(line) + 1
           IN  /\ \E k \in (p + 1) .. (q - 1) : isHexDigit(line[k])
               /\ \A k \in (p + 1) .. (q - 1) : isHexDigit(line[k]) \/ isSpace(line[k])

\* a line that is neither empty nor a comment and cannot be parsed
unparsable(line) == line # << >> /\ line[1] # 35 /\ ~wellFormedLine(line)

\* C24: the table file is written only by a refresh whose fetch was ok and
\* whose source has no line that cannot be parsed, and only after fetch and
\* parse are over: a refresh with a failed fetch or an unparsable line never
\* writes the file.
C24_FailsLoudly ==
    Len(refresh.file) = 1 =>
        /\ refresh.ok
        /\ refresh.pc = "written"
        /\ refresh.i > Len(refresh.source)
        /\ \A k \in 1 .. Len(refresh.source) : ~unparsable(refresh.source[k])


====
